---- MODULE Spec2Model ----
\* Model of .codex/scripts/codex_pattern_updater.py: the incremental session
\* tracker (process_agent), its persisted state (load_state / save_state) and
\* the token-budget trimming of tracked session identifiers.
EXTENDS Integers, Sequences, FiniteSets, TLC

VARIABLES
    history,      \* what the history loader returns now: ordered dict sid -> sorted message timestamps
    state_file,   \* the automation state JSON file (exists flag and its keys)
    result,       \* outcome of the process_agent call that just finished on this history
    trim_in,      \* an automation state handed to save_state on its own
    trim_out,     \* the file save_state wrote for trim_in
    document,     \* the guidance document at the profile's output path
    git,          \* the git and pull-request steps of the invocation that just finished
    call_in,      \* the input of a function that is run on its own
    call_out,     \* what that function returned
    loads,        \* what the loads of the runs so far held (kept for the properties)
    peer,         \* the history, state file and document of the claude profile
                  \* when the invocation selects several profiles
    run           \* the invocation in progress when it selects several profiles

vars ==
    <<history, state_file, result, trim_in, trim_out, document, git, call_in, call_out, loads,
      peer, run>>

\* ---------------------------------------------------------------- bounds
\* largest message timestamp in a history (timestamps are 0..MaxTs)
MaxTs == 1
\* largest number of message records in a history
MaxRecords == 3
\* largest number of message records in a history where the invocations
\* take many inputs (discovery answers, git workflow)
MaxFewRecords == 1
\* longest processed_sessions list of a legacy state file present at the start
MaxLegacy == 2
\* values the clock can show when the state is saved (1..MaxTime)
MaxTime == 1
\* longest array the pattern-discovery call answers with
MaxResp == 1
\* longest identifier list handed to save_state on its own
MaxList == 3
\* len() of the short session id "s1"
ShortLen == 2
\* len() of the ids "h1", "h2", "h3": two of them fill the budget exactly
HalfLen == 199996
\* len() of the id "xl": its cost alone exceeds the budget
HugeLen == 400000

\* ------------------------------------------------------- program constants
MAX_MEMORY_TOKENS == 100000
MAX_PATTERNS == 20

\* ------------------------------------------------------------ session ids
\* ids of the sessions a history can hold
SessionIds == {"s1", "xl"}
\* ids of the lists handed to save_state on its own
TrimIds == {"s1", "h1", "h2", "h3", "xl"}

\* len(session_id)
len(sid) ==
    CASE sid = "s1" -> ShortLen
      [] sid \in {"h1", "h2", "h3"} -> HalfLen
      [] OTHER -> HugeLen

TS == 0..MaxTs
Times == 1..MaxTime

\* ------------------------------------------------- Python dict (ordered)
\* A dict is a sequence of [k, v] entries in insertion order, keys distinct.
Keys(d) == [i \in 1..Len(d) |-> d[i].k]

Has(d, key) == \E i \in 1..Len(d) : d[i].k = key

Get(d, key) == d[CHOOSE i \in 1..Len(d) : d[i].k = key].v

\* d[key] = value: an existing key keeps its position, a new key goes last
Put(d, key, value) ==
    IF Has(d, key)
    THEN [i \in 1..Len(d) |-> IF d[i].k = key THEN [k |-> key, v |-> value] ELSE d[i]]
    ELSE Append(d, [k |-> key, v |-> value])

Range(s) == {s[i] : i \in 1..Len(s)}

Reverse(s) == [i \in 1..Len(s) |-> s[Len(s) + 1 - i]]

MaxOf(S) == CHOOSE x \in S : \A y \in S : y <= x

\* ------------------------------------------------------------- trimming
\* max(1, (len(session_id) // 4) + 1)
estimate_token_cost(sid) ==
    IF (len(sid) \div 4) + 1 >= 1 THEN (len(sid) \div 4) + 1 ELSE 1

\* Faulty variant, for sensitivity: the budget test forgets the cost of the id at hand
RECURSIVE LimitWalk_nocost(_, _, _)
LimitWalk_nocost(rev, tokens, limited) ==
    IF rev = <<>> THEN limited
    ELSE LET cost == estimate_token_cost(Head(rev))
         IN IF tokens > MAX_MEMORY_TOKENS
            THEN LimitWalk_nocost(Tail(rev), tokens, limited)
            ELSE LimitWalk_nocost(Tail(rev), tokens + cost, Append(limited, Head(rev)))

\* the reverse walk of enforce_state_limits over rev (already reversed):
\* returns the kept ids in walk order
RECURSIVE LimitWalk(_, _, _)
LimitWalk(rev, tokens, limited) ==
    IF rev = <<>> THEN limited
    ELSE LET cost == estimate_token_cost(Head(rev))
         IN IF tokens + cost > MAX_MEMORY_TOKENS
            THEN LimitWalk(Tail(rev), tokens, limited)
            ELSE LimitWalk(Tail(rev), tokens + cost, Append(limited, Head(rev)))

\* Faulty variant, for sensitivity: limited.reverse() is left out
enforce_state_limits_norev(processed_sessions) ==
    LET limited == LimitWalk(Reverse(processed_sessions), 0, <<>>)
    IN [limited |-> limited,
        trimmed_count |-> Len(processed_sessions) - Len(limited)]

enforce_state_limits(processed_sessions) ==
    LET limited == Reverse(LimitWalk(Reverse(processed_sessions), 0, <<>>))
    IN [limited |-> limited,
        trimmed_count |-> Len(processed_sessions) - Len(limited)]

\* the seen / ordered_unique loop of save_state
RECURSIVE OrderedUnique(_, _)
OrderedUnique(limited, ordered_unique) ==
    IF limited = <<>> THEN ordered_unique
    ELSE IF Head(limited) \in Range(ordered_unique)
         THEN OrderedUnique(Tail(limited), ordered_unique)
         ELSE OrderedUnique(Tail(limited), Append(ordered_unique, Head(limited)))

\* Faulty variant, for sensitivity: session_progress is written as it came
FilterProgress_all(ordered_unique, session_progress) == session_progress

\* the dict comprehension of save_state: the entries of ordered_unique that
\* session_progress has, in the order of ordered_unique
RECURSIVE FilterProgress(_, _)
FilterProgress(ordered_unique, session_progress) ==
    IF ordered_unique = <<>> THEN <<>>
    ELSE LET sid == Head(ordered_unique)
             rest == FilterProgress(Tail(ordered_unique), session_progress)
         IN IF Has(session_progress, sid)
            THEN <<[k |-> sid, v |-> Get(session_progress, sid)]>> \o rest
            ELSE rest

\* ------------------------------------------------------------ state file
\* content tells what the bytes of an existing file are: "object" (a JSON
\* object), "invalid_json" (truncated or corrupt text, json.load raises
\* JSONDecodeError) or "non_object" (a JSON array or scalar, setdefault raises
\* AttributeError); the key fields hold the object's keys, an absent key as
\* the default setdefault gives it
NoFile ==
    [exists |-> FALSE, content |-> "object",
     processed_sessions |-> <<>>, session_progress |-> <<>>,
     dynamic_patterns |-> <<>>, trimmed_sessions |-> 0, updated_at |-> 0]

\* Faulty variant, for sensitivity: a file that cannot be read as an object is taken for {}
load_state_raises_never(file) == FALSE

\* load_state raises: json.load on an existing file that is not JSON, or
\* state.setdefault on a JSON value that is not an object
load_state_raises(file) == file.exists /\ file.content # "object"

\* load_state: the file's JSON object, or {} when absent, with the four
\* setdefault keys (an absent key reads as its default)
load_state(file) ==
    [processed_sessions |-> file.processed_sessions,
     dynamic_patterns |-> file.dynamic_patterns,
     trimmed_sessions |-> file.trimmed_sessions,
     session_progress |-> file.session_progress,
     updated_at |-> file.updated_at]

\* Faulty variant, for sensitivity: session_progress is written with the entries of the ids that
\* were trimmed
save_state_nofilter(state, now) ==
    LET lim == enforce_state_limits(state.processed_sessions)
        ordered_unique == OrderedUnique(lim.limited, <<>>)
    IN [exists |-> TRUE, content |-> "object",
        processed_sessions |-> ordered_unique,
        session_progress |-> state.session_progress,
        dynamic_patterns |-> state.dynamic_patterns,
        trimmed_sessions |-> lim.trimmed_count,
        updated_at |-> now]

\* Faulty variant, for sensitivity: trimmed_sessions keeps the value the state came with
save_state_stale(state, now) ==
    LET lim == enforce_state_limits(state.processed_sessions)
        ordered_unique == OrderedUnique(lim.limited, <<>>)
    IN [exists |-> TRUE, content |-> "object",
        processed_sessions |-> ordered_unique,
        session_progress |->
            IF state.session_progress # <<>>
            THEN FilterProgress(ordered_unique, state.session_progress)
            ELSE state.session_progress,
        dynamic_patterns |-> state.dynamic_patterns,
        trimmed_sessions |-> state.trimmed_sessions,
        updated_at |-> now]

\* save_state: the file written for the in-memory state at clock value now
save_state(state, now) ==
    LET processed_list == state.processed_sessions
        session_progress == state.session_progress
        lim == enforce_state_limits(processed_list)
        ordered_unique == OrderedUnique(lim.limited, <<>>)
    IN [exists |-> TRUE, content |-> "object",
        processed_sessions |-> ordered_unique,
        session_progress |->
            IF session_progress # <<>>
            THEN FilterProgress(ordered_unique, session_progress)
            ELSE state.session_progress,
        dynamic_patterns |-> state.dynamic_patterns,
        trimmed_sessions |-> lim.trimmed_count,
        updated_at |-> now]

\* -------------------------------------------------------------- patterns
\* A title is its text in lower case plus whether it is spelled with capitals;
\* str.lower() drops the capitals.
lower(title) == [title EXCEPT !.caps = FALSE]

T(text) == [text |-> text, caps |-> TRUE]

\* Faulty variant, for sensitivity: a catalog grown past MAX_PATTERNS
STATIC_PATTERNS_many == [i \in 1..(MAX_PATTERNS + 1) |-> T("shape the work before touching files")]

\* the titles of STATIC_PATTERNS, in order
STATIC_PATTERNS ==
    <<T("shape the work before touching files"),
      T("document intent and outcomes as you go"),
      T("build verification into the loop"),
      T("be deliberate with commits and prs"),
      T("minimize approval churn"),
      T("stay within the correct workspace"),
      T("leverage available tooling proactively"),
      T("communicate like a teammate")>>

\* slugify is called at lines 340, 614 and 766 and defined nowhere in the
\* script: evaluating the call raises NameError
slugify_defined == FALSE

\* pattern_from_dict evaluates slugify(...) as the default argument of
\* data.get("identifier", ...) whether or not the key is there
pattern_from_dict_raises(entry) == ~slugify_defined

\* dynamic_patterns_from_state: entries whose conversion raises are skipped
dynamic_patterns_from_state(state) ==
    SelectSeq(state.dynamic_patterns, LAMBDA entry : ~pattern_from_dict_raises(entry))

\* the entries a parsed discovery answer can hold
EmptyTitle == [text |-> "", caps |-> FALSE]
\* is_dict: the entry is a JSON object (entry.get exists); title, guidance and
\* keywords: the title it carries and whether it carries guidance and keywords
WellFormedEntry ==
    [is_dict |-> TRUE, title |-> T("prefer small diffs"), guidance |-> TRUE, keywords |-> TRUE]

\* an array element that is a number or a string
ScalarEntry ==
    [is_dict |-> FALSE, title |-> EmptyTitle, guidance |-> FALSE, keywords |-> FALSE]

Entries ==
    {WellFormedEntry,
     [WellFormedEntry EXCEPT !.title = lower(T("minimize approval churn"))],
     [WellFormedEntry EXCEPT !.title = EmptyTitle],
     [WellFormedEntry EXCEPT !.guidance = FALSE],
     [WellFormedEntry EXCEPT !.keywords = FALSE],
     ScalarEntry}

\* Faulty variant, for sensitivity: a title is not compared with the titles of the existing patterns
RECURSIVE CandidateLoop_noexisting(_, _, _, _, _)
CandidateLoop_noexisting(parsed, existing, seen_titles, patterns, capacity) ==
    IF parsed = <<>> \/ Len(patterns) >= capacity
    THEN [raised |-> FALSE, patterns |-> patterns]
    ELSE LET entry == Head(parsed)
             title == entry.title
         IN IF ~entry.is_dict
            THEN [raised |-> TRUE, patterns |-> patterns]
            ELSE IF title = EmptyTitle \/ lower(title) \in seen_titles
            THEN CandidateLoop_noexisting(Tail(parsed), existing, seen_titles, patterns, capacity)
            ELSE IF ~entry.guidance \/ ~entry.keywords
            THEN CandidateLoop_noexisting(Tail(parsed), existing, seen_titles, patterns, capacity)
            ELSE IF ~slugify_defined
            THEN [raised |-> TRUE, patterns |-> patterns]
            ELSE CandidateLoop_noexisting(Tail(parsed), existing, seen_titles \cup {lower(title)},
                                          Append(patterns, title), capacity)

\* the candidate loop of discover_patterns_with_claude (lines 748-777)
RECURSIVE CandidateLoop(_, _, _, _, _)
CandidateLoop(parsed, existing, seen_titles, patterns, capacity) ==
    IF parsed = <<>> \/ Len(patterns) >= capacity
    THEN [raised |-> FALSE, patterns |-> patterns]
    ELSE LET entry == Head(parsed)
             title == entry.title
         IN IF ~entry.is_dict
            THEN [raised |-> TRUE, patterns |-> patterns]
            ELSE IF title = EmptyTitle \/ lower(title) \in existing \/ lower(title) \in seen_titles
            THEN CandidateLoop(Tail(parsed), existing, seen_titles, patterns, capacity)
            ELSE IF ~entry.guidance \/ ~entry.keywords
            THEN CandidateLoop(Tail(parsed), existing, seen_titles, patterns, capacity)
            ELSE IF ~slugify_defined
            THEN [raised |-> TRUE, patterns |-> patterns]
            ELSE CandidateLoop(Tail(parsed), existing, seen_titles \cup {lower(title)},
                               Append(patterns, title), capacity)

\* What the provider call gives: "unavailable" stands for every path that
\* returns [] before the candidate loop (no API key, HTTPError, URLError,
\* unparsable body, error object, no JSON array); "parsed" carries the array.
Unavailable == [kind |-> "unavailable", parsed |-> <<>>]

\* CODEX_PATTERN_DISABLE_LLM is set: process_agent does not make the call
Disabled == [kind |-> "disabled", parsed |-> <<>>]

\* the socket times out while the response is awaited or read: urlopen or
\* response.read() raises TimeoutError, which is neither HTTPError nor URLError
ReadTimeout == [kind |-> "timeout", parsed |-> <<>>]

\* an answer holding one well-formed proposal with a title not yet in use
Proposal == [kind |-> "parsed", parsed |-> <<WellFormedEntry>>]

LlmBasic == {Unavailable, Proposal}

LlmOutcomes ==
    {Unavailable, Disabled, ReadTimeout} \cup
    {[kind |-> "parsed", parsed |-> p] :
        p \in UNION {[1..n -> Entries] : n \in 1..MaxResp}}

discover_patterns_with_claude(llm, session_ids, existing_titles, capacity) ==
    IF capacity <= 0 \/ session_ids = <<>> \/ llm.kind = "unavailable"
    THEN [raised |-> FALSE, patterns |-> <<>>]
    ELSE IF llm.kind = "timeout"
    THEN [raised |-> TRUE, patterns |-> <<>>]
    ELSE CandidateLoop(llm.parsed, {lower(t) : t \in Range(existing_titles)}, {}, <<>>, capacity)

\* ---------------------------------------------------- guidance document
\* A line of text: what it reads with the whitespace at its end taken off,
\* whether it is a bullet (starts with "-"), and whether it ends in spaces.
\* A blank line has no text.
Line(text) == [text |-> text, bullet |-> TRUE, trail |-> FALSE]

Blank == [text |-> "", bullet |-> FALSE, trail |-> FALSE]

\* line.strip() is non-empty
NonBlank(line) == line.text # ""

\* line.rstrip()
rstrip(line) == [line EXCEPT !.trail = FALSE]

DEFAULT_CLAUDE_MANUAL_CALLOUTS ==
    <<Line("- Use context7 for context"),
      Line("- Always write .MD plan/todo files to separate folder"),
      Line("- After you make significant changes, always engage the git commit specialist agent"),
      Line("- DONT ADD FALLBACKS"),
      Line("- When working on a new issue, create a new worktree and branch"),
      Line("- Never add fallbacks"),
      Line("- Never add generated-with notes to PRs"),
      Line("- Never put committed-by notes, same for PRs"),
      Line("- Don't write co-authored by"),
      Line("- Always timestamp doc names")>>

\* the profiles of DEFAULT_AGENT_CONFIGS
Agents == {"codex", "claude"}

\* config.manual_section is not None
has_manual_section(agent) == agent = "claude"

\* The document: the pattern titles it renders, whether its text holds the
\* start marker with the end marker behind it (marked), whether an end marker
\* also stands before the start marker (stray_end), the lines between the
\* start marker and the end marker behind it (manual), and the other lines of
\* a text that was not rendered by this script (other_lines). Messages carry
\* no text in this model, so every count is 0 and there are no examples.
NoDocument ==
    [exists |-> FALSE, patterns |-> <<>>, marked |-> FALSE, stray_end |-> FALSE,
     manual |-> <<>>, other_lines |-> <<>>]

\* Faulty variant, for sensitivity: the lines between the markers are dropped for the defaults
load_existing_manual_lines_reset(doc) == DEFAULT_CLAUDE_MANUAL_CALLOUTS

\* load_existing_manual_lines for the claude profile's ManualSectionSpec:
\* text.find gives the first start marker and the first end marker, and the
\* lines between them are taken only if end_idx > start_idx
load_existing_manual_lines(doc) ==
    IF ~doc.exists THEN DEFAULT_CLAUDE_MANUAL_CALLOUTS
    ELSE IF doc.marked /\ ~doc.stray_end
    THEN LET kept == SelectSeq(doc.manual, NonBlank)
             lines == [i \in 1..Len(kept) |-> rstrip(kept[i])]
         IN IF lines # <<>> THEN lines ELSE DEFAULT_CLAUDE_MANUAL_CALLOUTS
    ELSE LET candidate_lines == SelectSeq(doc.other_lines \o doc.manual, NonBlank)
             bullets == SelectSeq(candidate_lines, LAMBDA line : line.bullet)
             bullet_lines == [i \in 1..Len(bullets) |-> rstrip(bullets[i])]
         IN IF bullet_lines # <<>> THEN bullet_lines ELSE DEFAULT_CLAUDE_MANUAL_CALLOUTS

\* build_manual_section: the lines of the manual section, none without one
build_manual_section(agent, doc) ==
    IF has_manual_section(agent) THEN load_existing_manual_lines(doc) ELSE <<>>

\* render_guidance_document and write_document: the document written for
\* the patterns and the manual section
render_guidance_document(agent, patterns, manual_lines) ==
    [exists |-> TRUE,
     patterns |-> patterns,
     marked |-> has_manual_section(agent),
     stray_end |-> FALSE,
     manual |->
        IF has_manual_section(agent) /\ manual_lines # <<>>
        THEN <<Blank>> \o manual_lines \o <<Blank>>
        ELSE <<>>,
     other_lines |-> <<>>]

\* ------------------------------------------------------------ statistics
\* A message text is one word, kept in lower case with a mark for capitals
\* (as a title is); a keyword is a word too. "keyword in blob" holds when the
\* word is one of the blob's words, capitals and all.
Word(text) == [text |-> text, caps |-> FALSE]

\* "\n".join(extract_text(messages)).lower()
blob_of(messages) == {lower(messages[i]) : i \in 1..Len(messages)}

\* any(keyword in blob for keyword in pattern.keywords)
any_keyword_in(keywords, blob) == \E i \in 1..Len(keywords) : keywords[i] \in blob

\* the snippet of an example: the first message that holds a keyword, else
\* the first message
snippet_of(messages, keywords) ==
    LET hits == SelectSeq(messages, LAMBDA msg : any_keyword_in(keywords, {lower(msg)}))
    IN IF hits # <<>> THEN hits[1] ELSE messages[1]

\* Faulty variant, for sensitivity: "if sid not in processed_set" is left out
RECURSIVE StatsLoop_unscoped(_, _, _, _)
StatsLoop_unscoped(items, processed_set, keywords, acc) ==
    IF items = <<>> THEN acc
    ELSE LET sid == Head(items).k
             messages == Head(items).v
         IN IF any_keyword_in(keywords, blob_of(messages))
            THEN StatsLoop_unscoped(Tail(items), processed_set, keywords,
                    [matched_sessions |-> Append(acc.matched_sessions, sid),
                     examples |->
                        IF Len(acc.examples) < 3
                        THEN Append(acc.examples,
                                    [session_id |-> sid,
                                     snippet |-> snippet_of(messages, keywords)])
                        ELSE acc.examples])
            ELSE StatsLoop_unscoped(Tail(items), processed_set, keywords, acc)

\* for sid, messages in sessions.items() of build_stats, for one pattern
RECURSIVE StatsLoop(_, _, _, _)
StatsLoop(items, processed_set, keywords, acc) ==
    IF items = <<>> THEN acc
    ELSE LET sid == Head(items).k
             messages == Head(items).v
         IN IF processed_set # {} /\ sid \notin processed_set
            THEN StatsLoop(Tail(items), processed_set, keywords, acc)
            ELSE IF any_keyword_in(keywords, blob_of(messages))
            THEN StatsLoop(Tail(items), processed_set, keywords,
                    [matched_sessions |-> Append(acc.matched_sessions, sid),
                     examples |->
                        IF Len(acc.examples) < 3
                        THEN Append(acc.examples,
                                    [session_id |-> sid,
                                     snippet |-> snippet_of(messages, keywords)])
                        ELSE acc.examples])
            ELSE StatsLoop(Tail(items), processed_set, keywords, acc)

\* build_stats: for each pattern (given by its keywords) the count and the
\* examples, in the order of patterns
build_stats(sessions, processed_ids, patterns) ==
    LET processed_set == Range(processed_ids)
    IN [i \in 1..Len(patterns) |->
            LET acc == StatsLoop(sessions, processed_set, patterns[i],
                                 [matched_sessions |-> <<>>, examples |-> <<>>])
            IN [count |-> Cardinality(Range(acc.matched_sessions)),
                examples |-> acc.examples]]

\* --------------------------------------------------------- process_agent
\* Faulty variant, for sensitivity: the first message of the sorted list is taken for the latest
latest_ts_first(messages) == IF messages # <<>> THEN messages[1] ELSE 0

\* max(int(item.get("ts") or 0) for item in messages) if messages else 0
latest_ts(messages) == IF messages # <<>> THEN MaxOf(Range(messages)) ELSE 0

\* Faulty variant, for sensitivity: >= in place of >
any_newer_or_equal(messages, last_seen) == \E i \in 1..Len(messages) : messages[i] >= last_seen

\* any(int(item.get("ts") or 0) > last_seen for item in messages)
any_newer(messages, last_seen) == \E i \in 1..Len(messages) : messages[i] > last_seen

\* sessions.get(sid, [])
MessagesOf(sessions, sid) == IF Has(sessions, sid) THEN Get(sessions, sid) ELSE <<>>

\* Faulty variant, for sensitivity: the migration seeds no entry
MigrationLoop_none(snapshot, sessions, session_progress) == session_progress

\* the legacy migration loop (lines 1232-1237) over processed_sessions_snapshot
RECURSIVE MigrationLoop(_, _, _)
MigrationLoop(snapshot, sessions, session_progress) ==
    IF snapshot = <<>> THEN session_progress
    ELSE LET sid == Head(snapshot)
             messages == MessagesOf(sessions, sid)
         IN IF messages = <<>>
            THEN MigrationLoop(Tail(snapshot), sessions, session_progress)
            ELSE MigrationLoop(Tail(snapshot), sessions,
                               Put(session_progress, sid, latest_ts(messages)))

\* Faulty variant, for sensitivity: the timestamp is stored when the session is first seen and
\* left alone afterwards
ClassifyOne_once(acc, sid, messages) ==
    LET known == Has(acc.session_progress, sid)
    IN [new_sessions |->
            IF ~known /\ messages # <<>>
            THEN Append(acc.new_sessions, sid) ELSE acc.new_sessions,
        updated_sessions |->
            IF known /\ any_newer(messages, Get(acc.session_progress, sid))
            THEN Append(acc.updated_sessions, sid) ELSE acc.updated_sessions,
        session_progress |->
            IF known THEN acc.session_progress
            ELSE Put(acc.session_progress, sid, latest_ts(messages))]

\* Faulty variant, for sensitivity: the stored timestamp is never lowered (max of the stored value
\* and the latest of the load)
ClassifyOne_max(acc, sid, messages) ==
    LET known == Has(acc.session_progress, sid)
        latest == latest_ts(messages)
    IN [new_sessions |->
            IF ~known /\ messages # <<>>
            THEN Append(acc.new_sessions, sid) ELSE acc.new_sessions,
        updated_sessions |->
            IF known /\ any_newer(messages, Get(acc.session_progress, sid))
            THEN Append(acc.updated_sessions, sid) ELSE acc.updated_sessions,
        session_progress |->
            Put(acc.session_progress, sid,
                IF known /\ Get(acc.session_progress, sid) > latest
                THEN Get(acc.session_progress, sid) ELSE latest)]

\* Faulty variant, for sensitivity: the else of "if last_seen is None" is lost: every session with
\* messages is appended to updated_sessions
ClassifyOne_both(acc, sid, messages) ==
    LET known == Has(acc.session_progress, sid)
    IN [new_sessions |->
            IF ~known /\ messages # <<>>
            THEN Append(acc.new_sessions, sid) ELSE acc.new_sessions,
        updated_sessions |->
            IF messages # <<>>
            THEN Append(acc.updated_sessions, sid) ELSE acc.updated_sessions,
        session_progress |-> Put(acc.session_progress, sid, latest_ts(messages))]

\* Faulty variant, for sensitivity: "if not last_seen" in place of "if last_seen is None": a stored
\* timestamp 0 reads as never seen
ClassifyOne_falsy(acc, sid, messages) ==
    LET known == Has(acc.session_progress, sid) /\ Get(acc.session_progress, sid) # 0
    IN [new_sessions |->
            IF ~known /\ messages # <<>>
            THEN Append(acc.new_sessions, sid) ELSE acc.new_sessions,
        updated_sessions |->
            IF known /\ any_newer(messages, Get(acc.session_progress, sid))
            THEN Append(acc.updated_sessions, sid) ELSE acc.updated_sessions,
        session_progress |-> Put(acc.session_progress, sid, latest_ts(messages))]

\* one pass of the classification loop body (lines 1244-1252)
ClassifyOne(acc, sid, messages) ==
    LET known == Has(acc.session_progress, sid)
    IN [new_sessions |->
            IF ~known /\ messages # <<>>
            THEN Append(acc.new_sessions, sid) ELSE acc.new_sessions,
        updated_sessions |->
            IF known /\ any_newer(messages, Get(acc.session_progress, sid))
            THEN Append(acc.updated_sessions, sid) ELSE acc.updated_sessions,
        session_progress |-> Put(acc.session_progress, sid, latest_ts(messages))]

\* Faulty variant, for sensitivity: the entries of the sessions that the load does not hold are
\* dropped before the loop
RECURSIVE ClassificationLoop_walk(_, _)
ClassificationLoop_walk(items, acc) ==
    IF items = <<>> THEN acc
    ELSE ClassificationLoop_walk(Tail(items), ClassifyOne(acc, Head(items).k, Head(items).v))

ClassificationLoop_fresh(items, acc) ==
    ClassificationLoop_walk(items,
        [acc EXCEPT !.session_progress = SelectSeq(@, LAMBDA e : Has(items, e.k))])

\* for sid, messages in sessions.items() (line 1243)
RECURSIVE ClassificationLoop(_, _)
ClassificationLoop(items, acc) ==
    IF items = <<>> THEN acc
    ELSE ClassificationLoop(Tail(items), ClassifyOne(acc, Head(items).k, Head(items).v))

\* new_sessions + [sid for sid in updated_sessions if sid not in new_sessions]
touched_of(new_sessions, updated_sessions) ==
    new_sessions \o SelectSeq(updated_sessions, LAMBDA sid : sid \notin Range(new_sessions))

\* Faulty variant, for sensitivity: the state is saved on every non-dry run
should_save_always(touched_sessions, trimmed_preview, migration_performed, file) == TRUE

\* the save condition of line 1323
should_save(touched_sessions, trimmed_preview, migration_performed, file) ==
    touched_sessions # <<>> \/ trimmed_preview # 0 \/ migration_performed \/ ~file.exists

NoResult ==
    [status |-> "none", dry_run |-> FALSE, new_sessions |-> <<>>,
     updated_sessions |-> <<>>, session_progress |-> <<>>,
     processed_sessions |-> <<>>, patterns |-> <<>>, trimmed |-> 0,
     trimmed_preview |-> 0, migration_performed |-> FALSE, saved |-> FALSE,
     discovery_called |-> FALSE, error_from |-> "none", llm |-> Unavailable,
     before |-> NoFile, document_before |-> NoDocument, progress_start |-> <<>>]

\* process_agent on the loaded sessions and the state file: the file it leaves
\* and the AgentRunResult it returns (status "ok"), or status "error" when an
\* exception leaves it (error_from names the call that raised). The fields llm
\* (what the provider had to give), document_before (the document as the call
\* found it), before (the file as the call found it) and
\* progress_start (session_progress when the classification loop starts) are
\* kept with the result for the properties below.
process_agent(agent, file, doc, sessions, dry_run, now, llm) ==
    LET state == load_state(file)
        session_progress0 == state.session_progress
        processed_sessions_snapshot == state.processed_sessions
        dynamic_patterns == dynamic_patterns_from_state(state)
        patterns == STATIC_PATTERNS \o dynamic_patterns
        migration_performed ==
            processed_sessions_snapshot # <<>> /\ session_progress0 = <<>>
        progress_start ==
            IF migration_performed
            THEN MigrationLoop(processed_sessions_snapshot, sessions, session_progress0)
            ELSE session_progress0
        cls == ClassificationLoop(sessions,
                   [new_sessions |-> <<>>, updated_sessions |-> <<>>,
                    session_progress |-> progress_start])
        processed_sessions == Keys(cls.session_progress)
        remaining_pattern_slots == MAX_PATTERNS - Len(patterns)
        touched_sessions == touched_of(cls.new_sessions, cls.updated_sessions)
        llm_disabled == llm.kind = "disabled"
        discovery_called ==
            ~llm_disabled /\ touched_sessions # <<>> /\ remaining_pattern_slots > 0
        found ==
            IF discovery_called
            THEN discover_patterns_with_claude(llm, touched_sessions, patterns,
                                               remaining_pattern_slots)
            ELSE [raised |-> FALSE, patterns |-> <<>>]
        all_patterns == patterns \o found.patterns
        state2 ==
            [state EXCEPT
                !.session_progress = cls.session_progress,
                !.processed_sessions = processed_sessions,
                !.dynamic_patterns =
                    IF found.patterns # <<>>
                    THEN dynamic_patterns \o found.patterns
                    ELSE state.dynamic_patterns]
        manual_section == build_manual_section(agent, doc)
        document_content == render_guidance_document(agent, all_patterns, manual_section)
        trimmed_preview == enforce_state_limits(processed_sessions).trimmed_count
        saving ==
            ~dry_run /\ should_save(touched_sessions, trimmed_preview,
                                    migration_performed, file)
        written == save_state(state2, now)
        failed(from) ==
            [NoResult EXCEPT !.status = "error", !.error_from = from,
                             !.dry_run = dry_run, !.llm = llm, !.before = file,
                             !.document_before = doc]
    IN IF load_state_raises(file)
       THEN [file |-> file, document |-> doc, result |-> failed("load_state")]
       ELSE IF found.raised
       THEN [file |-> file, document |-> doc,
             result |-> [failed("discover_patterns_with_llm") EXCEPT
                            !.discovery_called = TRUE]]
       ELSE [file |-> IF saving THEN written ELSE file,
             document |-> IF dry_run THEN doc ELSE document_content,
             result |->
                [status |-> "ok", dry_run |-> dry_run,
                 new_sessions |-> cls.new_sessions,
                 updated_sessions |-> cls.updated_sessions,
                 session_progress |-> cls.session_progress,
                 processed_sessions |-> processed_sessions,
                 patterns |-> all_patterns,
                 trimmed |->
                    IF dry_run THEN trimmed_preview
                    ELSE IF saving THEN written.trimmed_sessions
                    ELSE state2.trimmed_sessions,
                 trimmed_preview |-> trimmed_preview,
                 migration_performed |-> migration_performed,
                 saved |-> saving,
                 discovery_called |-> discovery_called,
                 error_from |-> "none", llm |-> llm,
                 before |-> file, document_before |-> doc,
                 progress_start |-> progress_start]]

\* ------------------------------------------------------------- main flow
\* the steps of handle_git_workflow_multi behind its early returns, in order
GitSteps ==
    <<"ensure_branch", "stage_paths", "commit_changes", "push_branch",
      "create_or_update_pr_multi">>

\* What the working tree is: "no_repo" (no repository root found), "clean"
\* (git status shows nothing), "nothing_staged" (changes, but none in the
\* staged paths), "staged" (the staged paths differ from HEAD)
Trees == {"no_repo", "clean", "nothing_staged", "staged"}

\* Where HEAD is: "on_branch" (on the automation branch), "branch_exists"
\* (elsewhere, the automation branch exists), "branch_missing" (elsewhere,
\* there is no automation branch yet)
Heads == {"on_branch", "branch_exists", "branch_missing"}

Repos == [tree : Trees, head : Heads]

NoRepo == [tree |-> "no_repo", head |-> "branch_missing"]

Staged == [tree |-> "staged", head |-> "branch_missing"]

\* The commands run_cmd runs with check=True or inside a try: "status" (git
\* status --porcelain), "fetch", "rev_parse_head", "checkout_branch",
\* "checkout_base", "pull" (check=False, its return code is looked at),
\* "checkout_new" (checkout -B), "add", "commit", "push_upstream" (push
\* --set-upstream), "push" (the plain push tried after it), "pr" (gh pr edit
\* or gh pr create). fails is the set of those that exit non-zero.
GitCommands ==
    {"status", "fetch", "rev_parse_head", "checkout_branch", "checkout_base", "pull",
     "checkout_new", "add", "commit", "push_upstream", "push", "pr"}

NoGit == [steps |-> <<>>, commands |-> <<>>, warnings |-> <<>>, status |-> "none"]

\* run_cmd for each command of todo in turn, check=True: the commands run,
\* the last one being the one that raised, if any
RECURSIVE RunAll(_, _, _)
RunAll(todo, done, fails) ==
    IF todo = <<>> THEN [commands |-> done, raised |-> FALSE]
    ELSE IF Head(todo) \in fails
    THEN [commands |-> Append(done, Head(todo)), raised |-> TRUE]
    ELSE RunAll(Tail(todo), Append(done, Head(todo)), fails)

\* Faulty variant, for sensitivity: git pull runs with check=True, and git fetch outside the try
ensure_branch_strict(head, fails) ==
    LET out == RunAll(
                   CASE head = "on_branch" -> <<"fetch", "rev_parse_head">>
                     [] head = "branch_exists" -> <<"fetch", "rev_parse_head", "checkout_branch">>
                     [] OTHER -> <<"fetch", "rev_parse_head", "checkout_base", "pull",
                                   "checkout_new">>,
                   <<>>, fails)
    IN [commands |-> out.commands, warnings |-> <<>>, raised |-> out.raised]

\* ensure_branch: the commands it runs, the warnings it prints, and whether
\* it raises
ensure_branch(head, fails) ==
    LET required ==
            CASE head = "on_branch" -> <<"rev_parse_head">>
              [] head = "branch_exists" -> <<"rev_parse_head", "checkout_branch">>
              [] OTHER -> <<"rev_parse_head", "checkout_base">>
        first == RunAll(required, <<"fetch">>, fails)
        last == RunAll(<<"checkout_new">>, Append(first.commands, "pull"), fails)
        fetch_warning == IF "fetch" \in fails THEN <<"fetch">> ELSE <<>>
        pull_warning == IF "pull" \in fails THEN <<"pull">> ELSE <<>>
    IN IF first.raised \/ head # "branch_missing"
       THEN [commands |-> first.commands, warnings |-> fetch_warning,
             raised |-> first.raised]
       ELSE [commands |-> last.commands, warnings |-> fetch_warning \o pull_warning,
             raised |-> last.raised]

\* push_branch: the plain push is tried when push --set-upstream fails
push_branch(fails) ==
    IF "push_upstream" \in fails
    THEN RunAll(<<"push">>, <<"push_upstream">>, fails)
    ELSE [commands |-> <<"push_upstream">>, raised |-> FALSE]

\* the steps behind ensure_branch, entered one after the other until one
\* raises or nothing is staged
RECURSIVE GitWalk(_, _, _)
GitWalk(todo, acc, env) ==
    IF todo = <<>> THEN [acc EXCEPT !.status = "ok"]
    ELSE LET step == Head(todo)
             out ==
                CASE step = "stage_paths" -> RunAll(<<"add">>, <<>>, env.fails)
                  [] step = "commit_changes" -> RunAll(<<"commit">>, <<>>, env.fails)
                  [] step = "push_branch" -> push_branch(env.fails)
                  [] OTHER -> RunAll(<<"pr">>, <<>>, env.fails)
             entered ==
                [acc EXCEPT !.steps = Append(@, step), !.commands = @ \o out.commands]
         IN IF step = "commit_changes" /\ env.tree = "nothing_staged"
            THEN [acc EXCEPT !.status = "ok"]
            ELSE IF out.raised
            THEN [entered EXCEPT !.status = "error"]
            ELSE GitWalk(Tail(todo), entered, env)

\* handle_git_workflow_multi for the results of one profile: the steps it
\* entered, the commands it ran, the warnings, and whether it returned ("ok")
\* or raised ("error")
handle_git_workflow_multi(repo, fails) ==
    LET branch == ensure_branch(repo.head, fails)
        after_branch ==
            [steps |-> <<"ensure_branch">>,
             commands |-> <<"status">> \o branch.commands,
             warnings |-> branch.warnings, status |-> "ok"]
    IN IF repo.tree = "no_repo"
       THEN [NoGit EXCEPT !.status = "ok"]
       ELSE IF "status" \in fails
       THEN [NoGit EXCEPT !.commands = <<"status">>, !.status = "error"]
       ELSE IF repo.tree = "clean"
       THEN [NoGit EXCEPT !.commands = <<"status">>, !.status = "ok"]
       ELSE IF branch.raised
       THEN [after_branch EXCEPT !.status = "error"]
       ELSE GitWalk(Tail(GitSteps), after_branch, [tree |-> repo.tree, fails |-> fails])

\* Faulty variant, for sensitivity: --dry-run is not looked at before the git workflow
publishes_despite_dry_run(dry_run, skip_git) == ~skip_git

\* if not args.dry_run and not args.skip_git (line 1643)
publishes(dry_run, skip_git) == ~dry_run /\ ~skip_git

\* the script's main block for one selected profile: process_agent, then
\* the git workflow unless it is a dry run or --skip-git; an exception out of
\* process_agent ends the script before the git workflow
main(agent, file, doc, sessions, dry_run, skip_git, now, llm, repo, fails) ==
    LET out == process_agent(agent, file, doc, sessions, dry_run, now, llm)
    IN [file |-> out.file, document |-> out.document, result |-> out.result,
        git |->
            IF out.result.status = "ok" /\ publishes(dry_run, skip_git)
            THEN handle_git_workflow_multi(repo, fails)
            ELSE NoGit]

\* ----------------------------------------------------------- the loaders
\* no function has been handed an input, or returned
NoCall == [kind |-> "none"]

\* no run has loaded a history yet: seen is the largest timestamp a load held
\* for each session (-1: none), last is the history the latest load held,
\* cumulative tells whether every load held all the messages of the one before
NoLoads == [seen |-> [sid \in SessionIds |-> -1], last |-> <<>>, cumulative |-> TRUE]

\* the claude profile has no history, no state file and no document
NoPeer == [history |-> <<>>, state_file |-> NoFile, document |-> NoDocument]

\* No invocation is in progress. pc is where the main block stands ("idle",
\* "processing": in the loop over agent_keys or just behind it, "done",
\* "aborted": an exception left it); selected is agent_keys; results holds
\* the status of each process_agent call made; events lists the writes and
\* the git commands in the order they were made; written holds, for each
\* profile that wrote, the state file and the document as it left them.
NoRun ==
    [pc |-> "idle", selected |-> <<>>, dry_run |-> FALSE, skip_git |-> FALSE,
     results |-> <<>>, events |-> <<>>, written |-> <<>>]

\* A number is kept as hi * 10^6 + lo with lo in 0..999999, so that 10^12
\* and the millisecond timestamps beyond it can be told apart.
Num(hi, lo) == [kind |-> "int", hi |-> hi, lo |-> lo]

\* value > 10**12
over_10_12(v) == v.hi > 1000000 \/ (v.hi = 1000000 /\ v.lo > 0)

\* value //= 1000
floordiv_1000(v) ==
    LET q == v.hi * 1000 + (v.lo \div 1000)
    IN Num(q \div 1000000, q % 1000000)

\* The raw timestamp of a history record: an integer, a string of digits, an
\* ISO-8601 datetime (here 2023-11-14T22:13:20Z, second 1700000000 of the
\* epoch), another string, or no timestamp key at all.
RawNumbers ==
    {Num(hi, lo) : hi \in {0, 1, 1700, 999999, 1000000, 1000001, 1700000},
                   lo \in {0, 1, 999, 1000, 999999}}

RawTimestamps ==
    RawNumbers
    \cup {[n EXCEPT !.kind = "digits"] : n \in RawNumbers}
    \cup {[kind |-> "iso", hi |-> 1700, lo |-> 0],
          [kind |-> "text", hi |-> 0, lo |-> 0],
          [kind |-> "absent", hi |-> 0, lo |-> 0]}

\* _normalize_timestamp
normalize_timestamp(raw) ==
    CASE raw.kind = "int" ->
            IF over_10_12(raw) THEN floordiv_1000(raw) ELSE raw
      [] raw.kind = "digits" ->
            IF over_10_12(raw) THEN floordiv_1000([raw EXCEPT !.kind = "int"])
            ELSE [raw EXCEPT !.kind = "int"]
      [] raw.kind = "iso" -> Num(raw.hi, raw.lo)
      [] OTHER -> Num(0, 0)

\* the "ts" load_codex_history stores for a record: entry.get("ts", 0)
codex_message_ts(raw) == IF raw.kind = "absent" THEN Num(0, 0) ELSE raw

\* the "ts" load_claude_history stores for a record
claude_message_ts(raw) == normalize_timestamp(raw)

\* the two loaders of AgentConfig.history_loader
Loaders == {"codex", "claude"}

message_ts(loader, raw) ==
    IF loader = "codex" THEN codex_message_ts(raw) ELSE claude_message_ts(raw)

\* ----------------------------------------------------------- the history
\* message_list.sort(key=ts) after the record with timestamp ts was appended
\* (the sort is stable: the record stays behind the older ones of equal ts)
SortedInsert(messages, ts) ==
    LET before == SelectSeq(messages, LAMBDA m : m <= ts)
        after == SelectSeq(messages, LAMBDA m : m > ts)
    IN before \o <<ts>> \o after

RECURSIVE RecordCount(_)
RecordCount(sessions) ==
    IF sessions = <<>> THEN 0 ELSE Len(Head(sessions).v) + RecordCount(Tail(sessions))

\* state files of the earlier script generation: processed_sessions only
LegacyFiles ==
    {[NoFile EXCEPT !.exists = TRUE, !.processed_sessions = p] :
        p \in UNION {[1..n -> SessionIds] : n \in 1..MaxLegacy}}

\* state files that are not a JSON object: cut short while being written, or
\* holding a JSON array
MalformedFiles ==
    {[NoFile EXCEPT !.exists = TRUE, !.content = c] : c \in {"invalid_json", "non_object"}}

NoInput == load_state(NoFile)

Init ==
    /\ history = <<>>
    /\ state_file \in {NoFile} \cup LegacyFiles \cup MalformedFiles
    /\ result = NoResult
    /\ trim_in = NoInput
    /\ trim_out = NoFile
    /\ document = NoDocument
    /\ git = NoGit
    /\ call_in = NoCall
    /\ call_out = NoCall
    /\ loads = NoLoads
    /\ peer = NoPeer
    /\ run = NoRun

\* a record {session_id: sid, ts: ts} is appended to the history; the loader
\* groups by session id in order of first appearance and sorts by timestamp
AppendRecord(sid, ts) ==
    /\ RecordCount(history) < MaxRecords
    /\ history' = Put(history, sid, SortedInsert(MessagesOf(history, sid), ts))
    /\ result' = NoResult
    /\ git' = NoGit
    /\ UNCHANGED <<state_file, trim_in, trim_out, document, call_in, call_out, loads, peer, run>>

\* the history is rotated: the next load starts from an empty file
ClearHistory ==
    /\ history # <<>>
    /\ history' = <<>>
    /\ result' = NoResult
    /\ git' = NoGit
    /\ UNCHANGED <<state_file, trim_in, trim_out, document, call_in, call_out, loads, peer, run>>

\* what one invocation of the script for one profile does to the files
MainStep(agent, dry_run, skip_git, now, llm, repo, fails) ==
    \E out \in {main(agent, state_file, document, history, dry_run, skip_git,
                      now, llm, repo, fails)} :
       /\ state_file' = out.file
       /\ document' = out.document
       /\ result' = out.result
       /\ git' = out.git
       /\ UNCHANGED <<history, trim_in, trim_out, call_in, call_out, peer, run>>

\* one invocation of the script for one profile
Main(agent, dry_run, skip_git, now, llm, repo, fails) ==
    /\ MainStep(agent, dry_run, skip_git, now, llm, repo, fails)
    /\ UNCHANGED loads

\* one invocation for the default profile with --skip-git
Run(dry_run, now, llm) == Main("codex", dry_run, TRUE, now, llm, NoRepo, {})

Next ==
    \/ \E sid \in SessionIds, ts \in TS : AppendRecord(sid, ts)
    \/ ClearHistory
    \/ \E dry_run \in BOOLEAN, now \in Times, llm \in LlmBasic : Run(dry_run, now, llm)

Spec == Init /\ [][Next]_vars

\* ------------------------------------------------- save_state on its own
TrimOrder == <<"s1", "h1", "h2", "h3", "xl">>

\* a session_progress dict over the ids of S
ProgressOver(S) ==
    LET keys == SelectSeq(TrimOrder, LAMBDA sid : sid \in S)
    IN [i \in 1..Len(keys) |-> [k |-> keys[i], v |-> MaxTs]]

TrimInputs ==
    {[NoInput EXCEPT !.processed_sessions = p, !.session_progress = ProgressOver(S)] :
        p \in UNION {[1..n -> TrimIds] : n \in 0..MaxList}, S \in SUBSET TrimIds}

TrimInit ==
    /\ history = <<>>
    /\ state_file = NoFile
    /\ result = NoResult
    /\ trim_in \in TrimInputs
    /\ trim_out = NoFile
    /\ document = NoDocument
    /\ git = NoGit
    /\ call_in = NoCall
    /\ call_out = NoCall
    /\ loads = NoLoads
    /\ peer = NoPeer
    /\ run = NoRun

ApplySave(now) ==
    /\ trim_out' = save_state(trim_in, now)
    /\ UNCHANGED <<history, state_file, result, trim_in, document, git, call_in, call_out, loads, peer, run>>

NextTrim == \E now \in Times : ApplySave(now)

SpecTrim == TrimInit /\ [][NextTrim]_vars

\* ------------------------------------- process_agent with discovery answers
\* One short session, no state file at the start, every answer of the
\* provider up to MaxResp entries. The clock shows one value: updated_at is
\* written and never read.
LlmInit ==
    /\ history = <<>>
    /\ state_file = NoFile
    /\ result = NoResult
    /\ trim_in = NoInput
    /\ trim_out = NoFile
    /\ document = NoDocument
    /\ git = NoGit
    /\ call_in = NoCall
    /\ call_out = NoCall
    /\ loads = NoLoads
    /\ peer = NoPeer
    /\ run = NoRun

NextLlm ==
    \/ \E ts \in TS : RecordCount(history) < MaxFewRecords /\ AppendRecord("s1", ts)
    \/ ClearHistory
    \/ \E dry_run \in BOOLEAN, llm \in LlmOutcomes : Run(dry_run, MaxTime, llm)

SpecLlm == LlmInit /\ [][NextLlm]_vars

\* ------------------------------- process_agent with stored dynamic patterns
\* state files that hold dynamic patterns, as pattern_to_dict writes them
\* (identifier, title, keywords, bullets); the model keeps the title
StoredFiles ==
    {[NoFile EXCEPT !.exists = TRUE, !.dynamic_patterns = d] :
        d \in {<<T("prefer small diffs")>>,
               <<T("prefer small diffs"), T("ask before force pushing")>>}}

StoredInit ==
    /\ history = <<>>
    /\ state_file \in StoredFiles
    /\ result = NoResult
    /\ trim_in = NoInput
    /\ trim_out = NoFile
    /\ document = NoDocument
    /\ git = NoGit
    /\ call_in = NoCall
    /\ call_out = NoCall
    /\ loads = NoLoads
    /\ peer = NoPeer
    /\ run = NoRun

SpecStored == StoredInit /\ [][NextLlm]_vars

\* ------------------------------------------------- a loader on one record
LoadInit ==
    /\ history = <<>>
    /\ state_file = NoFile
    /\ result = NoResult
    /\ trim_in = NoInput
    /\ trim_out = NoFile
    /\ document = NoDocument
    /\ git = NoGit
    /\ call_in \in {[kind |-> "record", loader |-> l, raw |-> r] :
                        l \in Loaders, r \in RawTimestamps}
    /\ call_out = NoCall
    /\ loads = NoLoads
    /\ peer = NoPeer
    /\ run = NoRun

LoadRecord ==
    /\ call_in.kind = "record"
    /\ call_out' = [kind |-> "message", ts |-> message_ts(call_in.loader, call_in.raw)]
    /\ UNCHANGED <<history, state_file, result, trim_in, trim_out, document, git, call_in, loads, peer, run>>

NextLoad == LoadRecord

SpecLoad == LoadInit /\ [][NextLoad]_vars

\* ------------------------------------------------- build_stats on its own
\* most sessions of a mapping handed to build_stats
MaxStatSessions == 2

\* ids of the sessions and of the in-scope list
StatIds == <<"s1", "s2", "s3">>

\* message lists: a keyword in lower case, with a capital, behind another
\* message, or not at all
StatMessages ==
    {<<Word("commit")>>, <<T("commit")>>, <<Word("hello"), Word("commit")>>,
     <<Word("hello")>>}

\* keyword tuples of a pattern
StatKeywords ==
    {<<Word("commit")>>, <<Word("rollback"), Word("hello")>>, <<T("commit")>>}

\* session mappings over the first n ids of StatIds
StatSessions ==
    UNION {{[i \in 1..n |-> [k |-> StatIds[i], v |-> f[i]]] : f \in [1..n -> StatMessages]} :
              n \in 0..MaxStatSessions}

\* in-scope lists: the ids of a subset of StatIds, in order
StatScopes == {SelectSeq(StatIds, LAMBDA sid : sid \in S) : S \in SUBSET Range(StatIds)}

StatsInit ==
    /\ history = <<>>
    /\ state_file = NoFile
    /\ result = NoResult
    /\ trim_in = NoInput
    /\ trim_out = NoFile
    /\ document = NoDocument
    /\ git = NoGit
    /\ call_in \in {[kind |-> "stats", sessions |-> m, processed_ids |-> p,
                      patterns |-> <<k>>] :
                        m \in StatSessions, p \in StatScopes, k \in StatKeywords}
    /\ call_out = NoCall
    /\ loads = NoLoads
    /\ peer = NoPeer
    /\ run = NoRun

BuildStats ==
    /\ call_in.kind = "stats"
    /\ call_out' = [kind |-> "stats",
                    stats |-> build_stats(call_in.sessions, call_in.processed_ids,
                                          call_in.patterns)]
    /\ UNCHANGED <<history, state_file, result, trim_in, trim_out, document, git, call_in, loads, peer, run>>

NextStats == BuildStats

SpecStats == StatsInit /\ [][NextStats]_vars

\* ------------------------------------ the manual section of the document
\* longest run of lines between the markers of a hand-edited document
MaxManual == 2

\* the lines a hand can put between the markers: a blank line, a bullet, a
\* bullet with spaces at its end, a line that is no bullet
ManualLines ==
    {Blank,
     Line("- keep the notes short"),
     [Line("- keep the notes short") EXCEPT !.trail = TRUE],
     [Line("remember the changelog") EXCEPT !.bullet = FALSE]}

\* documents of the claude profile as an editor left them
EditedDocuments ==
    {[exists |-> TRUE, patterns |-> STATIC_PATTERNS, marked |-> m, stray_end |-> e,
      manual |-> lines, other_lines |-> other] :
        m \in BOOLEAN, e \in BOOLEAN,
        lines \in UNION {[1..n -> ManualLines] : n \in 0..MaxManual},
        other \in {<<>>, <<Line("- loose bullet")>>}}

DocInit ==
    /\ history = <<>>
    /\ state_file = NoFile
    /\ result = NoResult
    /\ trim_in = NoInput
    /\ trim_out = NoFile
    /\ document \in {d \in EditedDocuments : ~d.marked => (~d.stray_end /\ d.manual = <<>>)}
    /\ git = NoGit
    /\ call_in = NoCall
    /\ call_out = NoCall
    /\ loads = NoLoads
    /\ peer = NoPeer
    /\ run = NoRun

NextDoc ==
    \E dry_run \in BOOLEAN, now \in Times :
        Main("claude", dry_run, TRUE, now, Unavailable, NoRepo, {})

SpecDoc == DocInit /\ [][NextDoc]_vars

\* --------------------------------------- runs with the loads kept on record
\* largest number of message records in a history whose loads are recorded
MaxSeenRecords == 2

\* the number of messages of the list with timestamp ts
CountOf(messages, ts) == Len(SelectSeq(messages, LAMBDA m : m = ts))

\* the load cur holds every message that the load prev held
Extends(cur, prev) ==
    \A i \in 1..Len(prev) :
        \A ts \in Range(prev[i].v) :
            CountOf(MessagesOf(cur, prev[i].k), ts) >= CountOf(prev[i].v, ts)

\* the record of loads after the history loader returned sessions
Observe(l, sessions) ==
    [seen |->
        [sid \in SessionIds |->
            IF Has(sessions, sid) /\ latest_ts(Get(sessions, sid)) > l.seen[sid]
            THEN latest_ts(Get(sessions, sid)) ELSE l.seen[sid]],
     last |-> sessions,
     cumulative |-> l.cumulative /\ Extends(sessions, l.last)]

\* one invocation for the default profile with --skip-git; what its load
\* held goes on record
ObservedRun(dry_run, now) ==
    /\ MainStep("codex", dry_run, TRUE, now, Unavailable, NoRepo, {})
    /\ loads' = Observe(loads, history)

\* One short session: an id that is trimmed has no session_progress entry.
NextLoads ==
    \/ \E ts \in TS :
          RecordCount(history) < MaxSeenRecords /\ AppendRecord("s1", ts)
    \/ ClearHistory
    \/ \E dry_run \in BOOLEAN : ObservedRun(dry_run, MaxTime)

SpecLoads == LlmInit /\ [][NextLoads]_vars

\* ------------------------------------------ the git workflow on its own
\* most commands that fail in one workflow
MaxFailing == 2

GitInit ==
    /\ history = <<>>
    /\ state_file = NoFile
    /\ result = NoResult
    /\ trim_in = NoInput
    /\ trim_out = NoFile
    /\ document = NoDocument
    /\ git = NoGit
    /\ call_in \in {[kind |-> "git", repo |-> r, fails |-> f] :
                        r \in Repos,
                        f \in {x \in SUBSET GitCommands : Cardinality(x) <= MaxFailing}}
    /\ call_out = NoCall
    /\ loads = NoLoads
    /\ peer = NoPeer
    /\ run = NoRun

Publish ==
    /\ call_in.kind = "git"
    /\ call_out' = [kind |-> "git",
                    git |-> handle_git_workflow_multi(call_in.repo, call_in.fails)]
    /\ UNCHANGED <<history, state_file, result, trim_in, trim_out, document, git, call_in, loads, peer, run>>

NextGit == Publish

SpecGit == GitInit /\ [][NextGit]_vars

\* ------------------------------------------- the script with git workflow
\* The working trees and failing steps that make a difference to the
\* workflow: without changes no step runs, without staged changes the steps
\* behind stage_paths do not run.
GitEnvs ==
    {[repo |-> [tree |-> t, head |-> "on_branch"], fails |-> {}] : t \in {"no_repo", "clean"}}
    \cup {[repo |-> [tree |-> "nothing_staged", head |-> "on_branch"], fails |-> f] :
             f \in {{}, {"rev_parse_head"}, {"add"}}}
    \cup {[repo |-> Staged, fails |-> f] :
             f \in {{}, {"checkout_base"}, {"add"}, {"commit"}, {"push_upstream", "push"},
                    {"pr"}}}

\* The claude profile, dry or not, with or without --skip-git; a dry or
\* --skip-git invocation finds a working tree with staged changes. The clock
\* shows one value.
NextMain ==
    \/ \E sid \in SessionIds, ts \in TS :
          RecordCount(history) < MaxFewRecords /\ AppendRecord(sid, ts)
    \/ ClearHistory
    \/ \E dry_run \in BOOLEAN, skip_git \in BOOLEAN, llm \in LlmBasic :
          /\ dry_run \/ skip_git
          /\ Main("claude", dry_run, skip_git, MaxTime, llm, Staged, {})
    \/ \E llm \in LlmBasic, env \in GitEnvs :
          Main("claude", FALSE, FALSE, MaxTime, llm, env.repo, env.fails)

SpecMain == Init /\ [][NextMain]_vars

\* ------------------------------------- the script with several profiles
\* The main block step by step: the loop over agent_keys makes one
\* process_agent call per step, and the git workflow is one step behind the
\* loop. The codex profile works on history, state_file and document, the
\* claude profile on the files of peer.
Selections == {<<"codex">>, <<"claude">>, <<"codex", "claude">>, <<"claude", "codex">>}

\* Faulty variant, for sensitivity: the git workflow is called inside the loop, behind the first
\* process_agent call
loop_finished_early(selected, results) == Len(results) >= 1

\* the for loop over agent_keys has made its last pass (lines 1628-1641)
loop_finished(selected, results) == Len(results) = Len(selected)

\* the files of a profile
FilesOf(agent) ==
    IF agent = "codex"
    THEN [history |-> history, state_file |-> state_file, document |-> document]
    ELSE peer

\* the script is started: args are parsed and agent_keys is built
Start(selected, dry_run, skip_git) ==
    /\ run.pc # "processing"
    /\ run' = [NoRun EXCEPT !.pc = "processing", !.selected = selected,
                            !.dry_run = dry_run, !.skip_git = skip_git]
    /\ result' = NoResult
    /\ git' = NoGit
    /\ UNCHANGED <<history, state_file, trim_in, trim_out, document, call_in, call_out, loads,
                   peer>>

\* one pass of the loop: process_agent for the next selected profile; an
\* exception out of it ends the script
ProcessNext(llm) ==
    /\ run.pc = "processing"
    /\ Len(run.results) < Len(run.selected)
    /\ \E agent \in {run.selected[Len(run.results) + 1]} :
       \E out \in {process_agent(agent, FilesOf(agent).state_file, FilesOf(agent).document,
                                  FilesOf(agent).history, run.dry_run, MaxTime, llm)} :
       LET ok == out.result.status = "ok"
           writes ==
               IF ok /\ ~run.dry_run
               THEN <<[by |-> agent, what |-> "write_document"]>>
                    \o (IF out.result.saved
                        THEN <<[by |-> agent, what |-> "save_state"]>> ELSE <<>>)
               ELSE <<>>
       IN /\ state_file' = IF agent = "codex" THEN out.file ELSE state_file
          /\ document' = IF agent = "codex" THEN out.document ELSE document
          /\ peer' = IF agent = "codex" THEN peer
                     ELSE [peer EXCEPT !.state_file = out.file, !.document = out.document]
          /\ result' = out.result
          /\ run' = [run EXCEPT
                        !.results = Append(@, out.result.status),
                        !.pc = IF ok THEN @ ELSE "aborted",
                        !.events = @ \o writes,
                        !.written =
                            IF writes # <<>>
                            THEN Put(@, agent, [state_file |-> out.file,
                                                document |-> out.document])
                            ELSE @]
    /\ UNCHANGED <<history, trim_in, trim_out, git, call_in, call_out, loads>>

\* behind the loop: the git workflow, unless --dry-run or --skip-git
Finish(repo, fails) ==
    /\ run.pc = "processing"
    /\ loop_finished(run.selected, run.results)
    /\ LET out == IF publishes(run.dry_run, run.skip_git)
                  THEN handle_git_workflow_multi(repo, fails)
                  ELSE NoGit
       IN /\ git' = out
          /\ run' = [run EXCEPT
                        !.pc = IF out.status = "error" THEN "aborted" ELSE "done",
                        !.events = @ \o [i \in 1..Len(out.commands) |->
                                            [by |-> "git", what |-> out.commands[i]]]]
    /\ UNCHANGED <<history, state_file, result, trim_in, trim_out, document, call_in, call_out,
                   loads, peer>>

\* a record is appended to the history of the claude profile
AppendPeerRecord(sid, ts) ==
    /\ run.pc # "processing"
    /\ RecordCount(peer.history) < MaxFewRecords
    /\ peer' = [peer EXCEPT
                   !.history = Put(@, sid, SortedInsert(MessagesOf(@, sid), ts))]
    /\ UNCHANGED <<history, state_file, result, trim_in, trim_out, document, git, call_in,
                   call_out, loads, run>>

NextAll ==
    \/ \E ts \in TS :
          /\ run.pc # "processing"
          /\ RecordCount(history) < MaxFewRecords
          /\ AppendRecord("s1", ts)
    \/ AppendPeerRecord("s1", MaxTs)
    \/ \E selected \in Selections, dry_run \in BOOLEAN, skip_git \in BOOLEAN :
          Start(selected, dry_run, skip_git)
    \/ \E llm \in LlmBasic : ProcessNext(llm)
    \/ \E env \in GitEnvs : Finish(env.repo, env.fails)

SpecAll == LlmInit /\ [][NextAll]_vars

\* ================================================================ properties
NoDuplicates(s) == \A i, j \in 1..Len(s) : s[i] = s[j] => i = j

\* a is obtained from b by deleting entries
RECURSIVE IsSubsequence(_, _)
IsSubsequence(a, b) ==
    IF a = <<>> THEN TRUE
    ELSE IF b = <<>> THEN FALSE
    ELSE IF Head(a) = Head(b) THEN IsSubsequence(Tail(a), Tail(b))
    ELSE IsSubsequence(a, Tail(b))

RECURSIVE SumCost(_)
SumCost(ids) ==
    IF ids = <<>> THEN 0 ELSE estimate_token_cost(Head(ids)) + SumCost(Tail(ids))

Completed == result.status = "ok"

\* the legacy-migration case as the run found it
MigrationCase(file) == file.processed_sessions # <<>> /\ file.session_progress = <<>>

\* C1 (as claimed): after a non-dry run, running process_agent again on the
\* same history from the state file the first run left classifies no session
\* as new or updated and leaves session_progress as the first run left it.
C1_RerunClassifiesNothing ==
    (Completed /\ ~result.dry_run) =>
        \A dry_run \in BOOLEAN, now \in Times :
            LET second == process_agent("codex", state_file, document, history,
                                        dry_run, now, Unavailable).result
            IN /\ second.new_sessions = <<>>
               /\ second.updated_sessions = <<>>
               /\ second.session_progress = result.session_progress

\* C2 (as claimed): every session id tracked before the run has, after the
\* run, a session_progress value at least its value before, whatever the load.
C2_ProgressNeverDecreases ==
    Completed =>
        \A i \in 1..Len(result.before.session_progress) :
            LET e == result.before.session_progress[i]
            IN /\ Has(result.session_progress, e.k)
               /\ Get(result.session_progress, e.k) >= e.v

\* C2 (amended): a session id tracked before the run that is absent from the
\* load, or whose largest timestamp in the load is at least the stored value,
\* has after the run a session_progress value at least its value before.
C2_ProgressMonotoneOnCumulativeLoad ==
    Completed =>
        \A i \in 1..Len(result.before.session_progress) :
            LET e == result.before.session_progress[i]
                messages == MessagesOf(history, e.k)
            IN (messages = <<>> \/ \E m \in Range(messages) : m >= e.v) =>
                   /\ Has(result.session_progress, e.k)
                   /\ Get(result.session_progress, e.k) >= e.v

C2_Witness ==
    /\ Completed
    /\ Has(result.before.session_progress, "s1")
    /\ Has(history, "s1")
    /\ Get(result.session_progress, "s1") > Get(result.before.session_progress, "s1")

\* C3: in every run no session id is in both new_sessions and
\* updated_sessions, and neither list holds an id twice.
C3_NewUpdatedExclusive ==
    Completed =>
        /\ Range(result.new_sessions) \cap Range(result.updated_sessions) = {}
        /\ NoDuplicates(result.new_sessions)
        /\ NoDuplicates(result.updated_sessions)

C3_Witness ==
    /\ Completed
    /\ result.new_sessions # <<>>
    /\ result.updated_sessions # <<>>

\* C4: the estimated costs of the ids enforce_state_limits returns, and of
\* the processed_sessions save_state writes, sum to at most MAX_MEMORY_TOKENS.
C4_TrimmingBound ==
    /\ SumCost(enforce_state_limits(trim_in.processed_sessions).limited) <= MAX_MEMORY_TOKENS
    /\ trim_out.exists => SumCost(trim_out.processed_sessions) <= MAX_MEMORY_TOKENS

C4_Witness ==
    /\ trim_out.exists
    /\ SumCost(trim_in.processed_sessions) > MAX_MEMORY_TOKENS
    /\ SumCost(trim_out.processed_sessions) = MAX_MEMORY_TOKENS

\* C5 (as claimed): trimmed_sessions as written equals the length of the input
\* list minus the length of the written processed_sessions, duplicates or not.
C5_TrimmedCountAfterDedup ==
    trim_out.exists =>
        trim_out.trimmed_sessions =
            Len(trim_in.processed_sessions) - Len(trim_out.processed_sessions)

\* C5 (amended): for an input list without duplicate entries, trimmed_sessions
\* as written equals the length of the input list minus the length of the
\* written processed_sessions.
C5_TrimmedCountNoDuplicates ==
    (trim_out.exists /\ NoDuplicates(trim_in.processed_sessions)) =>
        trim_out.trimmed_sessions =
            Len(trim_in.processed_sessions) - Len(trim_out.processed_sessions)

C5_Witness ==
    /\ trim_out.exists
    /\ NoDuplicates(trim_in.processed_sessions)
    /\ trim_out.trimmed_sessions > 0
    /\ trim_out.processed_sessions # <<>>

\* C6: the ids that survive trimming and deduplication are written in the
\* relative order they had in the input list.
C6_OrderPreserved ==
    /\ IsSubsequence(enforce_state_limits(trim_in.processed_sessions).limited,
                     trim_in.processed_sessions)
    /\ trim_out.exists =>
           IsSubsequence(trim_out.processed_sessions, trim_in.processed_sessions)

C6_Witness ==
    /\ trim_out.exists
    /\ Len(trim_out.processed_sessions) >= 2
    /\ trim_out.trimmed_sessions > 0

C8_NewIffUntracked ==
    Completed =>
        \A sid \in SessionIds :
            (sid \in Range(result.new_sessions)) <=>
                (~Has(result.progress_start, sid) /\ MessagesOf(history, sid) # <<>>)

C8_Witness ==
    /\ Completed
    /\ ~result.before.exists
    /\ history = <<[k |-> "s1", v |-> <<MaxTs>>]>>
    /\ result.new_sessions = <<"s1">>
    /\ Get(result.session_progress, "s1") = MaxTs

\* C9: a session of the load is classified updated exactly when its id is in
\* session_progress and its largest timestamp in the load is strictly greater
\* than the stored value.
C9_UpdatedIffNewer ==
    Completed =>
        \A sid \in SessionIds :
            (sid \in Range(result.updated_sessions)) <=>
                /\ Has(result.progress_start, sid)
                /\ MessagesOf(history, sid) # <<>>
                /\ MaxOf(Range(MessagesOf(history, sid))) > Get(result.progress_start, sid)

C9_Witness ==
    /\ Completed
    /\ result.updated_sessions = <<"s1">>
    /\ Get(result.session_progress, "s1") > Get(result.progress_start, "s1")

\* C10 (as claimed): a non-dry run writes the state file only if a session was
\* classified new or updated, or trimming dropped an id, or no state file
\* existed; otherwise the file is left as it was.
C10_WriteOnlyOnChange ==
    (Completed /\ ~result.dry_run) =>
        /\ result.saved =>
               \/ result.new_sessions # <<>>
               \/ result.updated_sessions # <<>>
               \/ result.trimmed_preview > 0
               \/ ~result.before.exists
        /\ ~result.saved => state_file = result.before

\* C10 (amended): ... or the legacy migration was performed (the file had
\* processed_sessions and an empty session_progress); otherwise the file is
\* left as it was.
C10_WriteOnlyOnChangeOrMigration ==
    (Completed /\ ~result.dry_run) =>
        /\ result.saved =>
               \/ result.new_sessions # <<>>
               \/ result.updated_sessions # <<>>
               \/ result.trimmed_preview > 0
               \/ ~result.before.exists
               \/ MigrationCase(result.before)
        /\ ~result.saved => state_file = result.before

C10_Witness ==
    /\ Completed
    /\ ~result.dry_run
    /\ ~result.saved
    /\ history # <<>>
    /\ result.before.exists

\* a run was made (it completed or it stopped with an error)
Ran == result.status # "none"

FailureOutcome(llm) ==
    \/ llm.kind \in {"unavailable", "disabled", "timeout"}
    \/ /\ llm.kind = "parsed"
       /\ \A i \in 1..Len(llm.parsed) :
              LET entry == llm.parsed[i]
              IN ~entry.is_dict \/ entry.title = EmptyTitle
                     \/ ~entry.guidance \/ ~entry.keywords

\* C12 (as claimed): whatever way the pattern-discovery call fails, the run
\* of process_agent completes, with the working patterns it had before the
\* call and no dynamic pattern added.
C12_DiscoveryFailureDoesNotAbort ==
    (Ran /\ ~load_state_raises(result.before) /\ FailureOutcome(result.llm)) =>
        /\ Completed
        /\ result.patterns =
               STATIC_PATTERNS \o dynamic_patterns_from_state(load_state(result.before))

\* C13: a dry run leaves the state file and the document as it found them
\* (an absent one stays absent), and the invocation runs no git or
\* pull-request step.
C13_DryRunWritesNothing ==
    (Ran /\ result.dry_run) =>
        /\ state_file = result.before
        /\ document = result.document_before
        /\ git.steps = <<>>

C13_Witness ==
    /\ Completed
    /\ result.dry_run
    /\ result.new_sessions # <<>>
    /\ ~state_file.exists
    /\ ~document.exists
    /\ result.trimmed_preview > 0

\* the history with one more record (session id sid, timestamp ts)
Grown(sessions, sid, ts) == Put(sessions, sid, SortedInsert(MessagesOf(sessions, sid), ts))

\* C14 (as claimed): every session a non-dry run classified new is tracked in
\* the session_progress the run persisted, and a later non-dry run on the
\* history grown by a record does not classify it new again.
C14_NewAtMostOnce ==
    (Completed /\ ~result.dry_run) =>
        \A i \in 1..Len(result.new_sessions) :
            /\ Has(state_file.session_progress, result.new_sessions[i])
            /\ \A sid \in SessionIds, ts \in TS, now \in Times :
                   LET later == process_agent("codex", state_file, document,
                                              Grown(history, sid, ts), FALSE, now,
                                              Unavailable).result
                   IN result.new_sessions[i] \notin Range(later.new_sessions)

\* the answer holds an entry that passes every filter of the candidate loop
\* for a working set of the static patterns and the stored ones
Accepted(llm, file) ==
    /\ llm.kind = "parsed"
    /\ llm.parsed[1].is_dict /\ llm.parsed[1].guidance /\ llm.parsed[1].keywords
    /\ llm.parsed[1].title # EmptyTitle
    /\ lower(llm.parsed[1].title) \notin
           {lower(t) : t \in Range(STATIC_PATTERNS) \cup Range(file.dynamic_patterns)}

\* C15 (as claimed): a dynamic pattern the discovery call proposes and the
\* filters accept is written to dynamic_patterns by a non-dry run; every
\* dynamic pattern the state file holds is loaded into the working pattern
\* set of a later run and stays in the persisted dynamic_patterns; the static
\* patterns are in the working set of every run.
C15_DynamicPatternsAccumulate ==
    /\ (Ran /\ ~result.dry_run /\ result.discovery_called
            /\ Accepted(result.llm, result.before)) =>
           /\ Completed
           /\ result.llm.parsed[1].title \in Range(state_file.dynamic_patterns)
    /\ Completed =>
           /\ \A t \in Range(result.before.dynamic_patterns) :
                  /\ t \in Range(result.patterns)
                  /\ t \in Range(state_file.dynamic_patterns)
           /\ \A t \in Range(STATIC_PATTERNS) : t \in Range(result.patterns)

\* the non-blank lines between the markers
ManualOf(doc) == SelectSeq(doc.manual, NonBlank)

\* C16 (as claimed): when the document a non-dry run of the claude profile
\* finds holds the start marker and the end marker behind it, the non-blank
\* lines between the markers of the document the run writes are the non-blank
\* lines that were between them before.
C16_ManualLinesPreserved ==
    (Completed /\ ~result.dry_run /\ result.document_before.exists
        /\ result.document_before.marked) =>
            ManualOf(document) = ManualOf(result.document_before)

\* C16 (amended): when in the document found the first start marker stands
\* before the first end marker, the non-blank lines between the markers as
\* written are the non-blank lines that were there with the whitespace at
\* their ends removed, in the same order, if there was one; if there was
\* none, they are the default lines.
C16_ManualLinesPreservedStripped ==
    (Completed /\ ~result.dry_run /\ result.document_before.exists
        /\ result.document_before.marked /\ ~result.document_before.stray_end) =>
            LET old == ManualOf(result.document_before)
            IN ManualOf(document) =
                   IF old # <<>> THEN [i \in 1..Len(old) |-> rstrip(old[i])]
                   ELSE DEFAULT_CLAUDE_MANUAL_CALLOUTS

C16_Witness ==
    /\ Completed
    /\ ~result.dry_run
    /\ result.document_before.marked
    /\ ~result.document_before.stray_end
    /\ Len(ManualOf(result.document_before)) = 2
    /\ result.document_before.manual[1] # result.document_before.manual[2]
    /\ ManualOf(document)[1] = Line("- keep the notes short")
    /\ ManualOf(document)[2].text = "remember the changelog"

\* the loader returned the message of the record
Loaded == call_in.kind = "record" /\ call_out.kind = "message"

\* what the claim gives for a raw timestamp that is an integer or absent or
\* an unparsable string
Normalized(raw) ==
    IF raw.kind = "int"
    THEN IF over_10_12(raw) THEN floordiv_1000(raw) ELSE raw
    ELSE Num(0, 0)

\* C17 (as claimed): with either loader, an integer timestamp above 10^12
\* is loaded as its quotient by 1000, an integer up to 10^12 as itself, an
\* absent or unparsable one as 0.
C17_TimestampNormalized ==
    (Loaded /\ call_in.raw.kind \in {"int", "absent", "text"}) =>
        call_out.ts = Normalized(call_in.raw)

\* build_stats returned
Counted == call_in.kind = "stats" /\ call_out.kind = "stats"

\* the sessions of the mapping within scope whose lower-cased text holds a
\* keyword of the pattern
MatchingIn(sessions, scope, keywords) ==
    {sid \in Range(Keys(sessions)) \cap scope :
        \E w \in Range(Get(sessions, sid)), kw \in Range(keywords) : lower(w) = kw}

\* C18 (as claimed): for every in-scope set, the empty one too, the count of
\* a pattern is the number of sessions of the mapping that are in the set and
\* whose lower-cased text holds a keyword, and every example is of a session
\* in the set.
C18_CountWithinScope ==
    Counted =>
        LET scope == Range(call_in.processed_ids)
        IN \A i \in 1..Len(call_in.patterns) :
              /\ call_out.stats[i].count =
                     Cardinality(MatchingIn(call_in.sessions, scope, call_in.patterns[i]))
              /\ \A j \in 1..Len(call_out.stats[i].examples) :
                     call_out.stats[i].examples[j].session_id \in scope

\* C18 (amended): for a non-empty in-scope set as claimed; for the empty
\* in-scope set every session of the mapping is in scope.
C18_CountWithinNonEmptyScope ==
    Counted =>
        LET given == Range(call_in.processed_ids)
            scope == IF given # {} THEN given ELSE Range(Keys(call_in.sessions))
        IN \A i \in 1..Len(call_in.patterns) :
              /\ call_out.stats[i].count =
                     Cardinality(MatchingIn(call_in.sessions, scope, call_in.patterns[i]))
              /\ \A j \in 1..Len(call_out.stats[i].examples) :
                     call_out.stats[i].examples[j].session_id \in scope

C18_Witness ==
    /\ Counted
    /\ Range(call_in.processed_ids) = {"s2", "s3"}
    /\ Len(call_in.sessions) = 2
    /\ any_keyword_in(call_in.patterns[1], blob_of(call_in.sessions[1].v))
    /\ call_out.stats[1].count = 1
    /\ call_out.stats[1].examples[1].session_id = "s2"

\* a is the tail of b
IsSuffix(a, b) == Len(a) <= Len(b) /\ a = SubSeq(b, Len(b) - Len(a) + 1, Len(b))

\* C19 (as claimed): the ids enforce_state_limits keeps are a suffix of the
\* input list: the id that does not fit and every id before it are dropped.
C19_SurvivorsAreSuffix ==
    IsSuffix(enforce_state_limits(trim_in.processed_sessions).limited,
             trim_in.processed_sessions)

\* C20 (as claimed): when saving the state of a run trims ids, no session the
\* run classified new or updated is dropped while a tracked session the run
\* did not touch is kept.
C20_EvictsLeastRecentlyTouched ==
    (Completed /\ result.saved /\ result.trimmed_preview > 0) =>
        LET touched == Range(result.new_sessions) \cup Range(result.updated_sessions)
            tracked == Range(result.processed_sessions)
            kept == Range(state_file.processed_sessions)
        IN ~\E t \in touched, u \in tracked \ touched : t \notin kept /\ u \in kept

\* C21: after the classification loop every session of the load, classified
\* new, updated or neither, has as its session_progress value the largest
\* message timestamp it has in the load.
C21_ProgressIsCurrentMax ==
    Completed =>
        \A i \in 1..Len(history) :
            /\ Has(result.session_progress, history[i].k)
            /\ Get(result.session_progress, history[i].k) =
                   IF history[i].v # <<>> THEN MaxOf(Range(history[i].v)) ELSE 0

C21_Witness ==
    /\ Completed
    /\ Len(history) = 2
    /\ "s1" \notin Range(result.new_sessions) \cup Range(result.updated_sessions)
    /\ result.new_sessions # <<>>
    /\ Has(result.progress_start, "s1")
    /\ Get(result.progress_start, "s1") = MaxTs
    /\ Get(result.session_progress, "s1") = 0

\* C22 (as claimed): after any sequence of runs, every session in
\* session_progress, as the run leaves it and as a non-dry run leaves it in the
\* state file, has a timestamp at least as large as every message timestamp a
\* load of any of the runs held for it.
C22_ProgressDominatesHistory ==
    Completed =>
        /\ \A i \in 1..Len(result.session_progress) :
               result.session_progress[i].v >= loads.seen[result.session_progress[i].k]
        /\ ~result.dry_run =>
               \A i \in 1..Len(state_file.session_progress) :
                   state_file.session_progress[i].v >=
                       loads.seen[state_file.session_progress[i].k]

\* C22 (amended): the same, for sequences of runs in which every load holds
\* all the messages the load before it held.
C22_ProgressDominatesCumulativeHistory ==
    (Completed /\ loads.cumulative) =>
        /\ \A i \in 1..Len(result.session_progress) :
               result.session_progress[i].v >= loads.seen[result.session_progress[i].k]
        /\ ~result.dry_run =>
               \A i \in 1..Len(state_file.session_progress) :
                   state_file.session_progress[i].v >=
                       loads.seen[state_file.session_progress[i].k]

C22_Witness ==
    /\ Completed
    /\ ~result.dry_run
    /\ loads.cumulative
    /\ result.updated_sessions = <<"s1">>
    /\ loads.seen["s1"] = MaxTs
    /\ Get(state_file.session_progress, "s1") = MaxTs
    /\ Get(result.before.session_progress, "s1") = 0

C24_ProgressFollowsSurvivors ==
    trim_out.exists =>
        Range(Keys(trim_out.session_progress)) \subseteq Range(trim_out.processed_sessions)

C24_Witness ==
    /\ trim_out.exists
    /\ trim_in.processed_sessions = <<"h1", "h2", "h3">>
    /\ Keys(trim_in.session_progress) = <<"h1", "h2", "h3">>
    /\ Keys(trim_out.session_progress) = <<"h2", "h3">>

\* every entry of the answer is an object whose title is, but for capitals,
\* the title of a pattern the working set holds already
AllDuplicates(llm, titles) ==
    /\ llm.kind = "parsed"
    /\ \A i \in 1..Len(llm.parsed) :
           /\ llm.parsed[i].is_dict
           /\ llm.parsed[i].title # EmptyTitle
           /\ lower(llm.parsed[i].title) \in {lower(t) : t \in Range(titles)}

\* C25: from an absent state file, the titles of the working pattern set of
\* every run differ pairwise when capitals are ignored, and a discovery call
\* whose candidates all repeat the title of an existing pattern returns
\* without adding a pattern.
C25_DistinctTitles ==
    /\ Completed =>
           \A i, j \in 1..Len(result.patterns) :
               lower(result.patterns[i]) = lower(result.patterns[j]) => i = j
    /\ (Ran /\ result.discovery_called /\ AllDuplicates(result.llm, STATIC_PATTERNS)) =>
           /\ Completed
           /\ result.patterns = STATIC_PATTERNS

C25_Witness ==
    /\ Completed
    /\ ~result.dry_run
    /\ result.discovery_called
    /\ AllDuplicates(result.llm, STATIC_PATTERNS)
    /\ result.llm.parsed[1].title \notin Range(STATIC_PATTERNS)
    /\ result.patterns = STATIC_PATTERNS
    /\ state_file.dynamic_patterns = <<>>

\* handle_git_workflow_multi returned or raised
Published == call_in.kind = "git" /\ call_out.kind = "git"

\* the step of handle_git_workflow_multi a command belongs to
StepOf(command) ==
    CASE command \in {"fetch", "rev_parse_head", "checkout_branch", "checkout_base", "pull",
                      "checkout_new"} -> "ensure_branch"
      [] command = "add" -> "stage_paths"
      [] command = "commit" -> "commit_changes"
      [] command \in {"push_upstream", "push"} -> "push_branch"
      [] command = "pr" -> "create_or_update_pr_multi"
      [] OTHER -> "repo_has_changes"

\* the place of a step in the order the claim gives (0: before the steps)
PlaceOf(step) ==
    IF step \in Range(GitSteps) THEN CHOOSE i \in 1..Len(GitSteps) : GitSteps[i] = step ELSE 0

\* the commands whose failure is not caught: all but fetch, pull and the
\* first of the two pushes
RequiredCommands == GitCommands \ {"fetch", "pull", "push_upstream"}

\* C26: the steps are entered in the order ensure_branch, stage_paths,
\* commit_changes, push_branch, create_or_update_pr_multi and their commands
\* run in that order; a required command that fails is the last command run
\* and the workflow raises; the workflow raises for no other reason; a fetch
\* or pull that fails leaves a warning and the commands behind it run; with
\* staged changes and no failure but of fetch or pull every step is entered.
C26_StepOrderAndFailure ==
    Published =>
        LET g == call_out.git
            fails == call_in.fails
            n == Len(g.commands)
        IN /\ g.steps = SubSeq(GitSteps, 1, Len(g.steps))
           /\ \A i, j \in 1..n :
                  i <= j => PlaceOf(StepOf(g.commands[i])) <= PlaceOf(StepOf(g.commands[j]))
           /\ \A i \in 1..n :
                  StepOf(g.commands[i]) \in Range(g.steps) \cup {"repo_has_changes"}
           /\ \A i \in 1..n :
                  g.commands[i] \in fails \cap RequiredCommands =>
                      i = n /\ g.status = "error"
           /\ g.status = "error" => n > 0 /\ g.commands[n] \in fails \cap RequiredCommands
           /\ \A i \in 1..n :
                  g.commands[i] \in fails \cap {"fetch", "pull"} =>
                      i < n /\ g.commands[i] \in Range(g.warnings)
           /\ (fails \subseteq {"fetch", "pull"} /\ call_in.repo.tree = "staged") =>
                  g.status = "ok" /\ g.steps = GitSteps

C26_Witness ==
    /\ Published
    /\ call_in.fails = {"pull", "commit"}
    /\ call_out.git.warnings = <<"pull">>
    /\ call_out.git.steps = <<"ensure_branch", "stage_paths", "commit_changes">>
    /\ call_out.git.status = "error"
    /\ call_out.git.commands =
           <<"status", "fetch", "rev_parse_head", "checkout_base", "pull", "checkout_new",
             "add", "commit">>

\* the profile wrote in this invocation and its files are as it left them
StaysOnDisk(agent) ==
    Has(run.written, agent) =>
        /\ FilesOf(agent).state_file = Get(run.written, agent).state_file
        /\ FilesOf(agent).document = Get(run.written, agent).document

\* C27: a git command is run only when the process_agent call of every
\* selected profile has returned; every write of a document or a state file
\* stands before every git command in the order of events, and a non-dry
\* invocation that reached the git workflow has written the document of every
\* selected profile; when a process_agent call raised, no git command is run,
\* no later profile is processed, and the files the earlier profiles wrote
\* are as they left them.
C27_PublishAfterAllWrites ==
    /\ git.commands # <<>> =>
           /\ Len(run.results) = Len(run.selected)
           /\ \A i \in 1..Len(run.results) : run.results[i] = "ok"
           /\ \A i \in 1..Len(run.selected) :
                  \E j \in 1..Len(run.events) :
                      run.events[j] = [by |-> run.selected[i], what |-> "write_document"]
    /\ \A i, j \in 1..Len(run.events) :
           (run.events[i].by = "git" /\ run.events[j].by # "git") => j < i
    /\ (\E i \in 1..Len(run.results) : run.results[i] = "error") =>
           /\ run.pc = "aborted"
           /\ run.results[Len(run.results)] = "error"
           /\ git = NoGit
           /\ \A j \in 1..Len(run.events) : run.events[j].by # "git"
    /\ \A agent \in Agents : StaysOnDisk(agent)

C27_Witness ==
    /\ run.pc = "done"
    /\ run.selected = <<"codex", "claude">>
    /\ git.steps = GitSteps
    /\ Len(run.events) >= 4 + Len(git.commands)
    /\ run.events[1] = [by |-> "codex", what |-> "write_document"]
    /\ run.events[2] = [by |-> "codex", what |-> "save_state"]
    /\ run.events[3] = [by |-> "claude", what |-> "write_document"]
    /\ run.events[4] = [by |-> "claude", what |-> "save_state"]
    /\ run.events[5].by = "git"

\* the second profile raised after the first had written
C27_AbortedAfterWrites ==
    /\ run.pc = "aborted"
    /\ run.results = <<"ok", "error">>
    /\ run.written # <<>>
    /\ git = NoGit

\* C28: in the state file a non-dry run of process_agent writes,
\* processed_sessions holds no id twice and its ids are the keys of
\* session_progress.
C28_PersistedSetsAgree ==
    (Completed /\ ~result.dry_run /\ result.saved) =>
        /\ NoDuplicates(state_file.processed_sessions)
        /\ Range(state_file.processed_sessions) = Range(Keys(state_file.session_progress))

C28_Witness ==
    /\ Completed
    /\ ~result.dry_run
    /\ result.saved
    /\ result.before.processed_sessions = <<"xl", "xl">>
    /\ result.trimmed_preview = 1
    /\ state_file.processed_sessions = <<"s1">>
    /\ Keys(state_file.session_progress) = <<"s1">>

\* C29 (as claimed): the trimmed value a run returns is the number of ids
\* that trimming drops from the id list of this run (dry run, saving run or
\* run that does not save), so it is 0 when the list fits the budget, whatever
\* trimmed_sessions the state file held.
C29_ReportedTrimmedIsThisRuns ==
    Completed =>
        result.trimmed =
            Len(result.processed_sessions)
                - Len(enforce_state_limits(result.processed_sessions).limited)

\* C30: in a run that finds a state file with ids in processed_sessions and
\* an empty session_progress, none of those ids is classified new or updated,
\* each of them that has messages in the load gets its largest timestamp in
\* the load as session_progress value, and a non-dry run writes the state.
C30_MigrationDoesNotReannounce ==
    (Completed /\ MigrationCase(result.before)) =>
        /\ \A sid \in Range(result.before.processed_sessions) :
               /\ sid \notin Range(result.new_sessions) \cup Range(result.updated_sessions)
               /\ MessagesOf(history, sid) # <<>> =>
                      /\ Has(result.session_progress, sid)
                      /\ Get(result.session_progress, sid) =
                             MaxOf(Range(MessagesOf(history, sid)))
        /\ ~result.dry_run =>
               /\ result.saved
               /\ state_file.updated_at \in Times
               /\ state_file.session_progress =
                      FilterProgress(state_file.processed_sessions, result.session_progress)

C30_Witness ==
    /\ Completed
    /\ ~result.dry_run
    /\ result.before.processed_sessions = <<"s1", "xl">>
    /\ result.before.session_progress = <<>>
    /\ history = <<[k |-> "s1", v |-> <<0, MaxTs>>]>>
    /\ result.new_sessions = <<>>
    /\ result.updated_sessions = <<>>
    /\ state_file.processed_sessions = <<"s1">>
    /\ state_file.session_progress = <<[k |-> "s1", v |-> MaxTs]>>

====
